---- MODULE Spec2Model ----
(***************************************************************************)
(* Model of parser_qm9.py: the XYZParser record parser (read_xyz and       *)
(* create_atoms), the QM9Parser batch parser, process_file and the         *)
(* __main__ driver (process pool fan-out, output-directory setup, writes). *)
(*                                                                         *)
(* Text is modelled at character level: a line is a sequence of one-       *)
(* character strings, a token is a sequence of characters, a file is a     *)
(* sequence of lines.  Floating-point numbers are modelled as exact        *)
(* decimals: float(tok) is an integer number of 10^-FracDigits units, and  *)
(* a value multiplied by 27.2114 is an integer number of                   *)
(* 10^-(FracDigits+4) units.                                               *)
(***************************************************************************)
EXTENDS Integers, Sequences, FiniteSets, TLC

(* ------------------------------------------------------------------ *)
(* Bounds of the model                                                 *)
(* ------------------------------------------------------------------ *)
MaxAtomLines == 2

MaxBatch == 2

MaxRuns == 2

FracDigits == 1

(* ------------------------------------------------------------------ *)
(* Characters, str.split(), str.strip(), str.replace("\t", " ")        *)
(* ------------------------------------------------------------------ *)
Whitespace == {" ", "\t", "\n"}

Digits == {"0", "1", "2", "3", "4", "5", "6", "7", "8", "9"}

DigitVal(c) ==
  CASE c = "0" -> 0 [] c = "1" -> 1 [] c = "2" -> 2 [] c = "3" -> 3
    [] c = "4" -> 4 [] c = "5" -> 5 [] c = "6" -> 6 [] c = "7" -> 7
    [] c = "8" -> 8 [] c = "9" -> 9 [] OTHER -> 0

Min(a, b) == IF a < b THEN a ELSE b

\* line.replace("\t", " ")
ReplaceTabs(line) ==
  [i \in 1..Len(line) |-> IF line[i] = "\t" THEN " " ELSE line[i]]

\* str.split() with no argument: maximal runs of non-whitespace characters
RECURSIVE SplitFrom(_, _, _, _)
SplitFrom(line, i, cur, acc) ==
  IF i > Len(line)
    THEN IF cur = <<>> THEN acc ELSE Append(acc, cur)
    ELSE IF line[i] \in Whitespace
           THEN SplitFrom(line, i + 1, <<>>,
                          IF cur = <<>> THEN acc ELSE Append(acc, cur))
           ELSE SplitFrom(line, i + 1, Append(cur, line[i]), acc)

Split(line) == SplitFrom(line, 1, <<>>, <<>>)

\* str.strip(): drop leading and trailing whitespace
RECURSIVE LStrip(_)
LStrip(s) ==
  IF s # <<>> /\ Head(s) \in Whitespace THEN LStrip(Tail(s)) ELSE s

RECURSIVE RStrip(_)
RStrip(s) ==
  IF s # <<>> /\ s[Len(s)] \in Whitespace
    THEN RStrip(SubSeq(s, 1, Len(s) - 1))
    ELSE s

Strip(s) == RStrip(LStrip(s))

\* a slice taken one token too early, as tokens[a-1:b-1]
SliceOneEarly(tokens, a, b) == SubSeq(tokens, a, Min(b, Len(tokens)) - 1)

\* tokens[a:b] of Python (0-based, end exclusive, clipped to the list)
Slice(tokens, a, b) == SubSeq(tokens, a + 1, Min(b, Len(tokens)))

(* ------------------------------------------------------------------ *)
(* int() and float() of a string                                       *)
(* ------------------------------------------------------------------ *)
AllDigits(s) == s # <<>> /\ \A i \in 1..Len(s) : s[i] \in Digits

RECURSIVE DigitsVal(_)
DigitsVal(s) ==
  IF s = <<>> THEN 0
  ELSE 10 * DigitsVal(SubSeq(s, 1, Len(s) - 1)) + DigitVal(s[Len(s)])

HasSign(s) == s # <<>> /\ Head(s) \in {"-", "+"}

Unsigned(s) == IF HasSign(s) THEN Tail(s) ELSE s

SignOf(s) == IF s # <<>> /\ Head(s) = "-" THEN -1 ELSE 1

\* int(s): optional sign and decimal digits, surrounding whitespace ignored
IsInt(s) == AllDigits(Unsigned(Strip(s)))

IntVal(s) == SignOf(Strip(s)) * DigitsVal(Unsigned(Strip(s)))

DotAt(s) ==
  IF \E i \in 1..Len(s) : s[i] = "."
    THEN CHOOSE i \in 1..Len(s) : s[i] = "." /\ \A j \in 1..(i - 1) : s[j] # "."
    ELSE 0

Pow10(n) == IF n <= 0 THEN 1 ELSE IF n = 1 THEN 10 ELSE 100

WithoutDot(u) ==
  LET d == DotAt(u)
  IN  IF d = 0 THEN u ELSE SubSeq(u, 1, d - 1) \o SubSeq(u, d + 1, Len(u))

FracLen(u) == IF DotAt(u) = 0 THEN 0 ELSE Len(u) - DotAt(u)

\* float(s): optional sign, decimal digits with at most one point and at
\* least one digit, surrounding whitespace ignored.  The tokens of the model
\* carry at most FracDigits fractional digits; the value is the exact number
\* of 10^-FracDigits units.
IsFloat(s) ==
  LET u == Unsigned(Strip(s))
  IN  /\ AllDigits(WithoutDot(u))
      /\ FracLen(u) <= FracDigits

FloatVal(s) ==
  LET u == Unsigned(Strip(s))
  IN  SignOf(Strip(s)) * DigitsVal(WithoutDot(u)) * Pow10(FracDigits - FracLen(u))

\* the tagged values a params entry can hold: the original token (a str) or
\* a converted number (a float)
StrV(tok) == [kind |-> "str", s |-> tok, f |-> 0]

FloatV(x) == [kind |-> "float", s |-> <<>>, f |-> x]

(* ------------------------------------------------------------------ *)
(* XYZParser.read_xyz                                                  *)
(* ------------------------------------------------------------------ *)
params_keys ==
  <<"db", "id", "A", "B", "C", "mu", "alpha", "homo", "lumo", "gap", "r2",
    "zpve", "U0", "U", "H", "G", "Cv">>

energy_keys == <<"homo", "lumo", "gap", "zpve", "U0", "U", "H", "G">>

\* 27.2114 in units of 10^-4
HartreeToEV == 272114

Range(s) == {s[i] : i \in 1..Len(s)}

KeyIndex(k) == CHOOSE i \in 1..Len(params_keys) : params_keys[i] = k

\* dict(zip(params_keys, params_values)): pairs up to the shorter length
ZipParams(params_values) ==
  LET n == Min(Len(params_keys), Len(params_values))
  IN  [k \in {params_keys[i] : i \in 1..n} |-> StrV(params_values[KeyIndex(k)])]

\* the conversion loop run over a key list that also names r2
ConvertEnergiesAndR2(params) ==
  [k \in DOMAIN params |->
     IF k \in Range(energy_keys) \cup {"r2"}
       THEN FloatV(FloatVal(params[k].s) * HartreeToEV)
       ELSE params[k]]

\* the loop "for prop in [...]: params[prop] = float(params[prop]) * 27.2114"
ConvertEnergies(params) ==
  [k \in DOMAIN params |->
     IF k \in Range(energy_keys)
       THEN FloatV(FloatVal(params[k].s) * HartreeToEV)
       ELSE params[k]]

\* the tokens of atom line i (0-based file line index), tabs replaced first
AtomTokens(lines, i) == Split(ReplaceTabs(lines[i + 1]))

\* range(2, n_atoms + 2)
AtomRange(n_atoms) == 2..(n_atoms + 1)

\* np.array(charges) without a dtype: no token is converted, nothing is raised
ChargesErrorNoDtype(lines, n_atoms) == ""

\* np.array(charges, dtype="float64"): the exception raised, "" if none
ChargesError(lines, n_atoms) ==
  IF \E i \in AtomRange(n_atoms) : ~IsFloat(AtomTokens(lines, i)[5])
    THEN "ValueError"
    ELSE ""

\* the first exception the body of read_xyz raises on `lines`, "" if none
ReadXyzError(lines) ==
  IF Len(lines) < 1 THEN "IndexError"
  ELSE IF ~IsInt(lines[1]) THEN "ValueError"
  ELSE IF Len(lines) < 2 THEN "IndexError"
  ELSE
    LET n_atoms == IntVal(lines[1])
        params  == ZipParams(Split(lines[2]))
    IN  IF \E i \in AtomRange(n_atoms) :
             i + 1 > Len(lines) \/ Len(AtomTokens(lines, i)) < 5
          THEN "IndexError"
        ELSE IF \E j \in 1..Len(energy_keys) :
                  /\ \A h \in 1..(j - 1) :
                        /\ energy_keys[h] \in DOMAIN params
                        /\ IsFloat(params[energy_keys[h]].s)
                  /\ energy_keys[j] \notin DOMAIN params
          THEN "KeyError"
        ELSE IF \E k \in Range(energy_keys) : ~IsFloat(params[k].s)
          THEN "ValueError"
        ELSE ChargesError(lines, n_atoms)

NoParams == [k \in {} |-> StrV(<<>>)]

NoResult ==
  [ok |-> FALSE, err |-> "", n_atoms |-> 0, params |-> NoParams,
   elements |-> <<>>, positions |-> <<>>, charges |-> <<>>]

\* read_xyz(file_path): the returned tuple, or the exception raised
read_xyz(lines) ==
  IF ReadXyzError(lines) # ""
    THEN [NoResult EXCEPT !.err = ReadXyzError(lines)]
    ELSE
      LET n_atoms == IntVal(lines[1])
          n       == Cardinality(AtomRange(n_atoms))
      IN  [ok        |-> TRUE,
           err       |-> "",
           n_atoms   |-> n_atoms,
           params    |-> ConvertEnergies(ZipParams(Split(lines[2]))),
           elements  |-> [a \in 1..n |-> AtomTokens(lines, a + 1)[1]],
           positions |-> [a \in 1..n |-> Slice(AtomTokens(lines, a + 1), 1, 4)],
           charges   |-> [a \in 1..n |-> FloatVal(AtomTokens(lines, a + 1)[5])]]

(* ------------------------------------------------------------------ *)
(* XYZParser.create_atoms (ase.Atoms)                                  *)
(* ------------------------------------------------------------------ *)
\* the element symbols of QM9 molecules, from the table ase.Atoms looks
\* symbols up in
ChemicalSymbols == {<<"C">>, <<"H">>, <<"N">>, <<"O">>, <<"F">>}

NoAtoms ==
  [ok |-> FALSE, err |-> "", symbols |-> <<>>, positions |-> <<>>,
   info |-> NoParams, charges |-> <<>>]

\* the first exception Atoms(elements, positions=positions) raises, "" if none
CreateAtomsError(elements, positions) ==
  IF \E a \in 1..Len(elements) : elements[a] \notin ChemicalSymbols
    THEN "KeyError"
  ELSE IF \E a \in 1..Len(positions) :
            \/ Len(positions[a]) # 3
            \/ \E c \in 1..Len(positions[a]) : ~IsFloat(positions[a][c])
    THEN "ValueError"
  ELSE ""

create_atoms(elements, positions, params, charges) ==
  IF CreateAtomsError(elements, positions) # ""
    THEN [NoAtoms EXCEPT !.err = CreateAtomsError(elements, positions)]
    ELSE [ok        |-> TRUE,
          err       |-> "",
          symbols   |-> elements,
          positions |-> [a \in 1..Len(positions) |->
                           [c \in 1..3 |-> FloatVal(positions[a][c])]],
          info      |-> params,
          charges   |-> charges]

(* ------------------------------------------------------------------ *)
(* Input files: what open(file_path).readlines() can return            *)
(* ------------------------------------------------------------------ *)
RECURSIVE Join(_, _)
Join(tokens, sep) ==
  IF tokens = <<>> THEN <<"\n">>
  ELSE IF Len(tokens) = 1 THEN Head(tokens) \o <<"\n">>
  ELSE Head(tokens) \o <<sep>> \o Join(Tail(tokens), sep)

PropTokens(id) ==
  << <<"g">>, id, <<"3">>, <<"4">>, <<"5">>, <<"6">>, <<"7">>,
     <<"-", "1">>, <<"0", ".", "5">>, <<"2">>, <<"8">>, <<"3">>,
     <<"-", "4">>, <<"-", "5">>, <<"-", "6">>, <<"-", "7">>, <<"9">> >>

PropTokenLists ==
  {PropTokens(id) : id \in {<<"1">>, <<"0", "1">>}} \cup
  { SubSeq(PropTokens(<<"1">>), 1, 16),
    SubSeq(PropTokens(<<"1">>), 1, 15),
    PropTokens(<<"1">>) \o << <<"9">> >>,
    [PropTokens(<<"1">>) EXCEPT ![8] = <<"x">>] }

PropLines == {Join(t, " ") : t \in PropTokenLists}

CountLines ==
  {Join(<< t >>, " ") : t \in {<<"2">>, <<"1">>, <<"0">>, <<"-", "1">>, <<"x">>}}
  \cup {<<" ", "1", " ", "\n">>}

AtomLines ==
  { Join(<< <<"C">>, <<"0">>, <<"0">>, <<"0">>, <<"-", "1">> >>, " "),
    Join(<< <<"H">>, <<"1">>, <<"0">>, <<"0">>, <<"0", ".", "5">> >>, "\t"),
    Join(<< <<"N">>, <<"1">>, <<"0">>, <<"0">>, <<"0", ".", "5">>, <<"9">> >>, " "),
    Join(<< <<"H">>, <<"1">>, <<"0">>, <<"0">> >>, " "),
    Join(<< <<"H">>, <<"x">>, <<"0">>, <<"0">>, <<"1">> >>, " "),
    Join(<< <<"H">>, <<"1">>, <<"0">>, <<"0">>, <<"q">> >>, " "),
    Join(<< <<"Q">>, <<"1">>, <<"0">>, <<"0">>, <<"1">> >>, " ") }

SeqsUpTo(S, n) == UNION {[1..m -> S] : m \in 0..n}

Files ==
  {<<c, p>> \o a : c \in CountLines, p \in PropLines,
                   a \in SeqsUpTo(AtomLines, MaxAtomLines)}
  \cup {<<>>} \cup {<<c>> : c \in CountLines}

(* ------------------------------------------------------------------ *)
(* XYZParser.__init__                                                  *)
(* ------------------------------------------------------------------ *)
\* a parser object before any attribute is assigned
NewObject ==
  [attrs |-> {}, raised |-> "", n_atoms |-> 0, params |-> NoParams,
   elements |-> <<>>, positions |-> <<>>, charges |-> <<>>,
   atoms |-> NoAtoms, list_atoms |-> <<>>]

\* self.n_atoms, ..., self.charges = self.read_xyz(file_path)
XYZRead(self, lines) ==
  LET r == read_xyz(lines)
  IN  IF ~r.ok THEN [self EXCEPT !.raised = r.err]
      ELSE [self EXCEPT
              !.attrs = @ \cup {"n_atoms", "params", "elements", "positions", "charges"},
              !.n_atoms = r.n_atoms, !.params = r.params,
              !.elements = r.elements, !.positions = r.positions,
              !.charges = r.charges]

\* self.atoms = self.create_atoms(self.elements, self.positions, self.params,
\*                                self.charges)
XYZCreate(self) ==
  LET a == create_atoms(self.elements, self.positions, self.params, self.charges)
  IN  IF ~a.ok THEN [self EXCEPT !.raised = a.err]
      ELSE [self EXCEPT !.attrs = @ \cup {"atoms"}, !.atoms = a]

XYZParserInit(self, lines) ==
  LET s == XYZRead(self, lines)
  IN  IF s.raised # "" THEN s ELSE XYZCreate(s)

(* ------------------------------------------------------------------ *)
(* QM9Parser.__init__ and process_file                                 *)
(* ------------------------------------------------------------------ *)
\* self.list_atoms = []
NewQM9Parser == [NewObject EXCEPT !.attrs = {"list_atoms"}]

\* the new atoms put at the front of list_atoms instead of the end
QM9CreatePrepend(self) ==
  LET s == XYZCreate(self)
  IN  IF s.raised # "" THEN s
      ELSE [s EXCEPT !.list_atoms = <<s.atoms>> \o @]

\* self.atoms = self.create_atoms(...); self.list_atoms.append(self.atoms)
QM9CreateAppend(self) ==
  LET s == XYZCreate(self)
  IN  IF s.raised # "" THEN s
      ELSE [s EXCEPT !.list_atoms = Append(@, s.atoms)]

\* one iteration of "for file_path in file_paths"
QM9Iter(self, lines) ==
  LET s == XYZParserInit(self, lines)
  IN  IF s.raised # "" THEN s ELSE QM9CreateAppend(s)

RECURSIVE QM9Loop(_, _, _)
QM9Loop(self, paths, i) ==
  IF i > Len(paths) \/ self.raised # "" THEN self
  ELSE QM9Loop(QM9Iter(self, paths[i]), paths, i + 1)

QM9Parser(paths) == QM9Loop(NewQM9Parser, paths, 1)

\* process_file(file_path): parser.atoms of QM9Parser([file_path]), or the
\* exception the constructor raised
process_file(lines) ==
  LET parser == QM9Parser(<<lines>>)
  IN  IF parser.raised # "" THEN [NoAtoms EXCEPT !.err = parser.raised]
      ELSE parser.atoms

\* the files of the batches
OneAtom == Join(<< <<"C">>, <<"0">>, <<"0">>, <<"0">>, <<"-", "1">> >>, " ")

TabAtom == Join(<< <<"H">>, <<"1">>, <<"0">>, <<"0">>, <<"0", ".", "5">> >>, "\t")

RecordFile(count, props, atom_lines) ==
  <<Join(<<count>>, " "), Join(props, " ")>> \o atom_lines

BatchFiles ==
  { RecordFile(<<"1">>, PropTokens(<<"1">>), <<OneAtom>>),
    RecordFile(<<"2">>, PropTokens(<<"0", "1">>), <<OneAtom, TabAtom>>),
    RecordFile(<<"1">>, PropTokens(<<"2">>), <<TabAtom>>),
    RecordFile(<<"1">>, PropTokens(<<"a">>), <<OneAtom>>),
    RecordFile(<<"2">>, PropTokens(<<"3">>), <<OneAtom>>) }

Batches == UNION {[1..m -> BatchFiles] : m \in 0..MaxBatch}

(* ------------------------------------------------------------------ *)
(* __main__: output directory and output file names                    *)
(* ------------------------------------------------------------------ *)
\* os.path.exists(parsed_files_dir)
os_path_exists(dir) == dir

\* a makedirs that returns without creating the directory
os_makedirs_nothing(dir) == [raised |-> "", dir |-> dir]

\* os.makedirs(parsed_files_dir): raises FileExistsError on an existing path
os_makedirs(dir) ==
  IF dir THEN [raised |-> "FileExistsError", dir |-> dir]
  ELSE [raised |-> "", dir |-> TRUE]

DigitChar(d) ==
  CASE d = 0 -> "0" [] d = 1 -> "1" [] d = 2 -> "2" [] d = 3 -> "3"
    [] d = 4 -> "4" [] d = 5 -> "5" [] d = 6 -> "6" [] d = 7 -> "7"
    [] d = 8 -> "8" [] d = 9 -> "9"

RECURSIVE NatToStr(_)
NatToStr(n) ==
  IF n < 10 THEN <<DigitChar(n)>>
  ELSE Append(NatToStr(n \div 10), DigitChar(n % 10))

RECURSIVE ZeroPad(_, _)
ZeroPad(s, width) == IF Len(s) >= width THEN s ELSE ZeroPad(<<"0">> \o s, width)

\* width of the format specification "06"
IdWidth == 6

\* f"{atoms_idx:06}": sign first, then zeros up to the width
FormatIdx(atoms_idx) ==
  IF atoms_idx < 0
    THEN <<"-">> \o ZeroPad(NatToStr(-atoms_idx), IdWidth - 1)
    ELSE ZeroPad(NatToStr(atoms_idx), IdWidth)

\* f"QM9_parsed/mol_{atoms_idx:06}.xyz", the directory and suffix left out
OutputName(atoms) == FormatIdx(IntVal(atoms.info["id"].s))

\* the exception "atoms_idx = int(atoms.info["id"])" raises, "" if none
IdError(atoms) ==
  IF "id" \notin DOMAIN atoms.info THEN "KeyError"
  ELSE IF atoms.info["id"].kind = "str" /\ ~IsInt(atoms.info["id"].s) THEN "ValueError"
  ELSE ""

VARIABLES
  file, pc, obj,                          \* XYZParser(file_path)
  file_paths, qi, qpc, parser,            \* QM9Parser(file_paths)
  xyz_files, task, result, dpc, list_atoms, wi, writes,   \* __main__
  dir_exists, out_files,                  \* the file system under QM9_parsed
  spc, runs                               \* processes running the directory setup

xyzVars == <<file, pc, obj>>

qm9Vars == <<file_paths, qi, qpc, parser>>

mainVars == <<xyz_files, task, result, dpc, list_atoms, wi, writes>>

fsVars == <<dir_exists, out_files>>

setupVars == <<spc, runs>>

vars == <<xyzVars, qm9Vars, mainVars, fsVars, setupVars>>

IdleXYZ == file = <<>> /\ pc = "idle" /\ obj = NewObject

IdleQM9 == file_paths = <<>> /\ qi = 0 /\ qpc = "idle" /\ parser = NewObject

IdleMain ==
  /\ xyz_files = <<>> /\ task = <<>> /\ result = <<>> /\ dpc = "idle"
  /\ list_atoms = <<>> /\ wi = 0 /\ writes = <<>>

IdleFs == dir_exists = FALSE /\ out_files = {}

IdleSetup == spc = <<>> /\ runs = <<>>

(* ------------------------------------------------------------------ *)
(* Specification of XYZParser(file_path)                               *)
(* ------------------------------------------------------------------ *)
InitXYZ ==
  /\ file \in Files
  /\ pc = "read_xyz"
  /\ obj = NewObject
  /\ IdleQM9 /\ IdleMain /\ IdleFs /\ IdleSetup

ReadStep ==
  /\ pc = "read_xyz"
  /\ obj' = XYZRead(obj, file)
  /\ pc' = IF obj'.raised # "" THEN "raised" ELSE "create_atoms"
  /\ UNCHANGED <<file, qm9Vars, mainVars, fsVars, setupVars>>

CreateStep ==
  /\ pc = "create_atoms"
  /\ obj' = XYZCreate(obj)
  /\ pc' = IF obj'.raised # "" THEN "raised" ELSE "done"
  /\ UNCHANGED <<file, qm9Vars, mainVars, fsVars, setupVars>>

NextXYZ == ReadStep \/ CreateStep

SpecXYZ == InitXYZ /\ [][NextXYZ]_vars

(* ------------------------------------------------------------------ *)
(* Specification of QM9Parser(file_paths)                              *)
(* ------------------------------------------------------------------ *)
InitQM9 ==
  /\ file_paths \in Batches
  /\ qi = 1
  /\ qpc = "super_init"
  /\ parser = NewQM9Parser
  /\ IdleXYZ /\ IdleMain /\ IdleFs /\ IdleSetup

\* super().__init__(file_path)
QM9SuperInit ==
  /\ qpc = "super_init"
  /\ qi <= Len(file_paths)
  /\ parser' = XYZParserInit(parser, file_paths[qi])
  /\ qpc' = IF parser'.raised # "" THEN "raised" ELSE "append"
  /\ UNCHANGED <<file_paths, qi, xyzVars, mainVars, fsVars, setupVars>>

\* self.atoms = self.create_atoms(...); self.list_atoms.append(self.atoms)
QM9Append ==
  /\ qpc = "append"
  /\ parser' = QM9CreateAppend(parser)
  /\ qpc' = IF parser'.raised # "" THEN "raised" ELSE "super_init"
  /\ qi' = qi + 1
  /\ UNCHANGED <<file_paths, xyzVars, mainVars, fsVars, setupVars>>

\* the loop is exhausted: the constructor returns
QM9Return ==
  /\ qpc = "super_init"
  /\ qi > Len(file_paths)
  /\ qpc' = "done"
  /\ UNCHANGED <<file_paths, qi, parser, xyzVars, mainVars, fsVars, setupVars>>

NextQM9 == QM9SuperInit \/ QM9Append \/ QM9Return

SpecQM9 == InitQM9 /\ [][NextQM9]_vars

(* ------------------------------------------------------------------ *)
(* Specification of __main__                                           *)
(* ------------------------------------------------------------------ *)
Tasks == 1..Len(xyz_files)

InitMain ==
  /\ xyz_files \in Batches
  /\ task = [i \in 1..Len(xyz_files) |-> "pending"]
  /\ result = [i \in 1..Len(xyz_files) |-> NoAtoms]
  /\ dpc = "map"
  /\ list_atoms = <<>>
  /\ wi = 1
  /\ writes = <<>>
  /\ dir_exists \in BOOLEAN
  /\ out_files = {}
  /\ IdleXYZ /\ IdleQM9 /\ IdleSetup

\* a worker of the pool runs process_file(xyz_files[i]); tasks already handed
\* to a worker still run while the executor shuts down
TaskRun(i) ==
  /\ dpc \in {"map", "crashed"}
  /\ task[i] = "pending"
  /\ result' = [result EXCEPT ![i] = process_file(xyz_files[i])]
  /\ task' = [task EXCEPT ![i] = IF result'[i].ok THEN "done" ELSE "raised"]
  /\ UNCHANGED <<xyz_files, dpc, list_atoms, wi, writes, fsVars,
                 xyzVars, qm9Vars, setupVars>>

\* the result iterator of executor.map cancels the futures not yet started
\* once it is abandoned
TaskCancel(i) ==
  /\ dpc = "crashed"
  /\ task[i] = "pending"
  /\ task' = [task EXCEPT ![i] = "cancelled"]
  /\ UNCHANGED <<xyz_files, result, dpc, list_atoms, wi, writes, fsVars,
                 xyzVars, qm9Vars, setupVars>>

\* list(executor.map(...)) takes the next result, in the order of xyz_files
GatherResult ==
  /\ dpc = "map"
  /\ Len(list_atoms) < Len(xyz_files)
  /\ task[Len(list_atoms) + 1] = "done"
  /\ list_atoms' = Append(list_atoms, result[Len(list_atoms) + 1])
  /\ UNCHANGED <<xyz_files, task, result, dpc, wi, writes, fsVars,
                 xyzVars, qm9Vars, setupVars>>

\* the next result is an exception: it is raised again in the driver
GatherRaise ==
  /\ dpc = "map"
  /\ Len(list_atoms) < Len(xyz_files)
  /\ task[Len(list_atoms) + 1] = "raised"
  /\ dpc' = "crashed"
  /\ UNCHANGED <<xyz_files, task, result, list_atoms, wi, writes, fsVars,
                 xyzVars, qm9Vars, setupVars>>

\* the with block ends: every result is in list_atoms
MapDone ==
  /\ dpc = "map"
  /\ Len(list_atoms) = Len(xyz_files)
  /\ dpc' = "exists"
  /\ UNCHANGED <<xyz_files, task, result, list_atoms, wi, writes, fsVars,
                 xyzVars, qm9Vars, setupVars>>

\* if not os.path.exists(parsed_files_dir):
CheckExists ==
  /\ dpc = "exists"
  /\ dpc' = IF os_path_exists(dir_exists) THEN "write" ELSE "makedirs"
  /\ UNCHANGED <<xyz_files, task, result, list_atoms, wi, writes, fsVars,
                 xyzVars, qm9Vars, setupVars>>

\* os.makedirs(parsed_files_dir)
MakeDirs ==
  /\ dpc = "makedirs"
  /\ dir_exists' = os_makedirs(dir_exists).dir
  /\ dpc' = IF os_makedirs(dir_exists).raised # "" THEN "crashed" ELSE "write"
  /\ UNCHANGED <<xyz_files, task, result, list_atoms, wi, writes, out_files,
                 xyzVars, qm9Vars, setupVars>>

AllGathered ==
  /\ \A i \in Tasks : task[i] = "done"
  /\ Len(list_atoms) = Len(xyz_files)

\* one iteration of "for i, atoms in enumerate(list_atoms)"
WriteStep ==
  /\ dpc = "write"
  /\ wi <= Len(list_atoms)
  /\ LET atoms == list_atoms[wi]
     IN  IF IdError(atoms) # ""
           THEN /\ dpc' = "crashed"
                /\ UNCHANGED <<wi, writes, out_files>>
           ELSE /\ writes' = Append(writes,
                       [i |-> wi, name |-> OutputName(atoms),
                        dir |-> dir_exists, gathered |-> AllGathered])
                /\ IF dir_exists
                     THEN /\ out_files' =
                               {f \in out_files : f.name # OutputName(atoms)}
                               \cup {[name |-> OutputName(atoms), i |-> wi,
                                      atoms |-> atoms]}
                          /\ wi' = wi + 1
                          /\ dpc' = dpc
                     ELSE /\ dpc' = "crashed"
                          /\ UNCHANGED <<wi, out_files>>
  /\ UNCHANGED <<xyz_files, task, result, list_atoms, dir_exists,
                 xyzVars, qm9Vars, setupVars>>

\* the loop is exhausted: the script ends
MainReturn ==
  /\ dpc = "write"
  /\ wi > Len(list_atoms)
  /\ dpc' = "done"
  /\ UNCHANGED <<xyz_files, task, result, list_atoms, wi, writes, fsVars,
                 xyzVars, qm9Vars, setupVars>>

NextMain ==
  \/ \E i \in Tasks : TaskRun(i)
  \/ \E i \in Tasks : TaskCancel(i)
  \/ GatherResult
  \/ GatherRaise
  \/ MapDone
  \/ CheckExists
  \/ MakeDirs
  \/ WriteStep
  \/ MainReturn

SpecMain == InitMain /\ [][NextMain]_vars

(* ------------------------------------------------------------------ *)
(* Specification of the output-directory setup run by several          *)
(* processes, each of them up to MaxRuns times in sequence             *)
(* ------------------------------------------------------------------ *)
NumProcs == 3

Procs == 1..NumProcs

\* what an existing output directory may already hold
OldContents == {{}, {[name |-> FormatIdx(1), i |-> 0, atoms |-> NoAtoms]}}

InitSetup ==
  /\ dir_exists \in BOOLEAN
  /\ out_files \in (IF dir_exists THEN OldContents ELSE {{}})
  /\ spc = [p \in Procs |-> "exists"]
  /\ runs = [p \in Procs |-> 1]
  /\ IdleXYZ /\ IdleQM9 /\ IdleMain

\* if not os.path.exists(parsed_files_dir):
SetupCheck(p) ==
  /\ spc[p] = "exists"
  /\ spc' = [spc EXCEPT ![p] =
               IF os_path_exists(dir_exists) THEN "done" ELSE "makedirs"]
  /\ UNCHANGED <<runs, fsVars, xyzVars, qm9Vars, mainVars>>

\* os.makedirs(parsed_files_dir)
SetupMakeDirs(p) ==
  /\ spc[p] = "makedirs"
  /\ dir_exists' = os_makedirs(dir_exists).dir
  /\ spc' = [spc EXCEPT ![p] =
               IF os_makedirs(dir_exists).raised # "" THEN "error" ELSE "done"]
  /\ UNCHANGED <<runs, out_files, xyzVars, qm9Vars, mainVars>>

\* the same process runs the setup once more
SetupAgain(p) ==
  /\ spc[p] = "done"
  /\ runs[p] < MaxRuns
  /\ runs' = [runs EXCEPT ![p] = @ + 1]
  /\ spc' = [spc EXCEPT ![p] = "exists"]
  /\ UNCHANGED <<fsVars, xyzVars, qm9Vars, mainVars>>

NextSetup ==
  \E p \in Procs : SetupCheck(p) \/ SetupMakeDirs(p) \/ SetupAgain(p)

SpecSetup == InitSetup /\ [][NextSetup]_vars

(* ------------------------------------------------------------------ *)
(* Properties                                                          *)
(* ------------------------------------------------------------------ *)
PropertyTokens == Split(file[2])

ReadReturned == "params" \in obj.attrs

\* C1: a record whose property line does not split into exactly 17 tokens
\* never makes read_xyz return a result (no properties mapping, full or partial).
C1_ArityRejected ==
  (Len(file) >= 2 /\ Len(PropertyTokens) # 17) => ~ReadReturned

\* C2: when the driver has ended and exactly one file of the batch is
\* malformed (its parse raises), every other file was parsed and written.
C2_BatchIsolation ==
  LET bad == {i \in Tasks : ~process_file(xyz_files[i]).ok}
  IN  (/\ dpc \in {"done", "crashed"}
       /\ \A i \in Tasks : task[i] # "pending"
       /\ Cardinality(bad) = 1)
        => \A j \in Tasks \ bad :
             /\ task[j] = "done"
             /\ \E k \in 1..Len(writes) : writes[k].i = j /\ writes[k].dir

\* C3: whenever read_xyz returns, the element list, the position list and the
\* charge array all have length n_atoms, the atom count read from line 0.
C3_LengthsEqualCount ==
  ReadReturned =>
    /\ Len(obj.elements) = obj.n_atoms
    /\ Len(obj.positions) = obj.n_atoms
    /\ Len(obj.charges) = obj.n_atoms

\* C4: for a record whose property line has exactly 17 tokens, the parsed
\* properties mapping has exactly the 17 canonical keys, the k-th key is bound
\* to the k-th token, the 9 keys outside the energy subset hold their token
\* unchanged as a string, and each of the 8 energy keys holds the number of its
\* token multiplied by 27.2114 once.
C4_PropertiesMapping ==
  (ReadReturned /\ Len(PropertyTokens) = 17) =>
    /\ DOMAIN obj.params =
         {"db", "id", "A", "B", "C", "mu", "alpha", "homo", "lumo", "gap",
          "r2", "zpve", "U0", "U", "H", "G", "Cv"}
    /\ \A k \in 1..17 :
         LET v == obj.params[params_keys[k]]
         IN  IF params_keys[k] \in {"homo", "lumo", "gap", "zpve", "U0", "U", "H", "G"}
               THEN /\ v.kind = "float"
                    /\ IsFloat(PropertyTokens[k])
                    /\ v.f = FloatVal(PropertyTokens[k]) * 272114
               ELSE /\ v.kind = "str"
                    /\ v.s = PropertyTokens[k]
    /\ (pc = "done" => obj.atoms.info = obj.params)

C4_Witness ==
  /\ pc = "done"
  /\ Len(PropertyTokens) = 17
  /\ obj.n_atoms = 2
  /\ obj.params["lumo"].f = 5 * Pow10(FracDigits - 1) * 272114

\* the record with each of the first n atom lines rewritten as its first five
\* tokens separated by single spaces
SpaceSeparated(lines, n) ==
  [i \in 1..Len(lines) |->
     IF i >= 3 /\ i <= n + 2 /\ Len(Split(lines[i])) >= 5
       THEN Join(SubSeq(Split(lines[i]), 1, 5), " ")
       ELSE lines[i]]

\* C5: after read_xyz returns, for every i in 0..n_atoms-1 the i-th element,
\* position and charge are token 0, tokens 1..3 and (the number of) token 4 of
\* file line 2+i with tabs replaced by spaces and split on whitespace; the
\* created atoms keep that order; tokens after token 4 and the choice of tab
\* or space as separator do not change the result.
C5_AtomLineTokens ==
  ReadReturned =>
    /\ \A i \in 0..(obj.n_atoms - 1) :
         LET toks == Split(ReplaceTabs(file[2 + i + 1]))
         IN  /\ obj.elements[i + 1] = toks[1]
             /\ obj.positions[i + 1] = <<toks[2], toks[3], toks[4]>>
             /\ obj.charges[i + 1] = FloatVal(toks[5])
             /\ pc = "done" =>
                  /\ obj.atoms.symbols[i + 1] = toks[1]
                  /\ obj.atoms.positions[i + 1] =
                       <<FloatVal(toks[2]), FloatVal(toks[3]), FloatVal(toks[4])>>
                  /\ obj.atoms.charges[i + 1] = FloatVal(toks[5])
    /\ read_xyz(SpaceSeparated(file, obj.n_atoms)) = read_xyz(file)

C5_Witness ==
  /\ pc = "done"
  /\ obj.n_atoms = 2
  /\ \E i \in 3..4 : \E j \in 1..Len(file[i]) : file[i][j] = "\t"
  /\ \E i \in 3..4 : Len(Split(file[i])) > 5
  /\ obj.elements[1] # obj.elements[2]

\* C6: no process running the output-directory setup ever ends in an error.
C6_SetupNeverFails == \A p \in Procs : spc[p] # "error"

\* the record has an integer atom count n and fewer than n atom lines, or one
\* of its first n atom lines has fewer than 5 tokens, or a coordinate or
\* charge token of these lines is not numeric
BadAtomRows(lines) ==
  /\ Len(lines) >= 2
  /\ IsInt(lines[1])
  /\ LET n == IntVal(lines[1])
     IN  \/ Len(lines) - 2 < n
         \/ \E i \in 3..Min(n + 2, Len(lines)) :
              LET toks == Split(lines[i])
              IN  \/ Len(toks) < 5
                  \/ \E c \in 2..5 : ~IsFloat(toks[c])

\* C7: a record with too few atom lines, a short atom line or a non-numeric
\* coordinate or charge token never yields an XYZParser object with an atoms
\* attribute: each step of the constructor it reaches raises or leaves the
\* failure to the next step, and the constructor never completes.
C7_AtomRowRejected ==
  BadAtomRows(file) =>
    /\ pc # "done"
    /\ "atoms" \notin obj.attrs
    /\ pc = "create_atoms" => XYZCreate(obj).raised # ""

C7_Witness ==
  /\ BadAtomRows(file)
  /\ pc = "raised"
  /\ obj.raised = "ValueError"
  /\ ReadReturned

\* C8: every output-file write happens with the output directory existing and
\* after every parse task has completed and its result has been gathered, and
\* the k-th write is the write of the k-th entry of the gathered list.
C8_WriteOrdering ==
  /\ \A k \in 1..Len(writes) :
       /\ writes[k].dir
       /\ writes[k].gathered
       /\ writes[k].i = k
  /\ writes # <<>> => (AllGathered /\ dpc \in {"write", "done", "crashed"})

C8_Witness ==
  /\ dpc = "done"
  /\ Len(writes) = 2
  /\ Len(xyz_files) = 2

\* C9: when the driver has ended normally on a batch whose files carry
\* pairwise different id tokens, the number of output files equals the number
\* of parsed input files, and no two of them were written under the same name.
C9_DistinctOutputs ==
  (/\ dpc = "done"
   /\ \A j, k \in Tasks : j # k => Split(xyz_files[j][2])[2] # Split(xyz_files[k][2])[2])
  =>
    /\ Cardinality(out_files) = Len(list_atoms)
    /\ \A j, k \in 1..Len(writes) : j # k => writes[j].name # writes[k].name

\* the Molecule built from one file
MoleculeOf(lines) ==
  LET r == read_xyz(lines)
  IN  create_atoms(r.elements, r.positions, r.params, r.charges)

====
